---- MODULE Spec2Model ----
(***************************************************************************)
(* A model of gunnery/task/models.py: the Task / Execution models, the      *)
(* materialization of an Execution's plan in Execution.save, the dispatch   *)
(* in Execution.start, the live log read and the ParameterParser.           *)
(*                                                                          *)
(* Text is a sequence of one-character strings, so that str.replace is      *)
(* modelled on characters exactly as Python computes it.                    *)
(***************************************************************************)
EXTENDS Integers, Sequences, FiniteSets, TLC

VARIABLES
    task_commands,              \* TaskCommand rows of the Task, by id
    server_roles,               \* Server rows of the Environment: server -> its roles
    execution,                  \* the Execution row
    execution_parameters,       \* ExecutionParameter rows, in the order .all() yields them
    execution_commands,         \* ExecutionCommand rows, by id
    materialized_from,          \* history: the TaskCommand row each ExecutionCommand was made from
    execution_command_servers,  \* ExecutionCommandServer rows (the units), by id
    execution_live_logs,        \* ExecutionLiveLog rows, in arrival order
    live_log_output,            \* outcome of the last get_live_log_output call
    worker_queue,               \* ExecutionTask messages in flight on the Worker Queue
    starts,                     \* number of calls of Execution.start
    edits,                      \* number of edits of the Task and the Environment
    runs,                       \* the ExecutionTask runs the Worker Queue has begun
    cmd,                        \* ParameterParser.process: the text handed in
    parsed,                     \* ParameterParser.process: the text returned
    pc                          \* position of the caller of process

definition_vars == <<task_commands, server_roles, edits>>
plan_vars == <<execution_commands, materialized_from, execution_command_servers>>
log_vars == <<execution_live_logs, live_log_output>>
dispatch_vars == <<worker_queue, starts, runs>>
parser_vars == <<cmd, parsed, pc, execution_parameters>>
vars == <<definition_vars, execution, plan_vars, log_vars, dispatch_vars, parser_vars>>

----------------------------------------------------------------------------
(* Bounds of the model                                                      *)

MaxPieces == 2
MaxParams == 2
MaxStarts == 2
MaxEdits == 2
MaxLogs == 1

----------------------------------------------------------------------------
(* Text                                                                     *)

\* the names of the global parameters (keys of global_parameters)
gun_application == <<"g","u","n","_","a","p","p","l","i","c","a","t","i","o","n">>
gun_environment == <<"g","u","n","_","e","n","v","i","r","o","n","m","e","n","t">>
gun_task == <<"g","u","n","_","t","a","s","k">>
gun_user == <<"g","u","n","_","u","s","e","r">>
gun_time == <<"g","u","n","_","t","i","m","e">>

GlobalNames == {gun_application, gun_environment, gun_task, gun_user, gun_time}

\* '${%s}' % name
parameter_format(name) == <<"$", "{">> \o name \o <<"}">>

\* str.replace(old, new): left to right, non-overlapping, every occurrence
RECURSIVE replace(_, _, _)
replace(s, old, new) ==
    IF Len(s) < Len(old) THEN s
    ELSE IF SubSeq(s, 1, Len(old)) = old
         THEN new \o replace(SubSeq(s, Len(old) + 1, Len(s)), old, new)
         ELSE <<Head(s)>> \o replace(Tail(s), old, new)

\* old in s
Contains(s, old) ==
    \E i \in 1..(Len(s) - Len(old) + 1) : SubSeq(s, i, i + Len(old) - 1) = old

Digit(d) ==
    CASE d = 0 -> "0" [] d = 1 -> "1" [] d = 2 -> "2" [] d = 3 -> "3" [] d = 4 -> "4"
      [] d = 5 -> "5" [] d = 6 -> "6" [] d = 7 -> "7" [] d = 8 -> "8" [] d = 9 -> "9"

\* str(n) of a non-negative integer
RECURSIVE str(_)
str(n) == IF n < 10 THEN <<Digit(n)>> ELSE str(n \div 10) \o <<Digit(n % 10)>>

----------------------------------------------------------------------------
(* The objects an Execution refers to: core.models and the user model, of   *)
(* which the parser reads only the names                                    *)

ApplicationName == <<"s","h","o","p">>
EnvironmentName == <<"p","r","o","d">>
TaskName == <<"r","e","l">>
UserEmail == <<"u","@","x">>
\* calendar.timegm(time_created.utctimetuple())
TimeCreated == 42

----------------------------------------------------------------------------
(* ParameterParser                                                          *)

\* ParameterParser.__init__: the values of the globals, read from the
\* execution; items is the order in which the dict yields its keys
ParameterParser(parameters, items) ==
    [ global_parameter_values |->
        [ name \in GlobalNames |->
            CASE name = gun_application -> ApplicationName
              [] name = gun_environment -> EnvironmentName
              [] name = gun_task -> TaskName
              [] name = gun_user -> UserEmail
              [] name = gun_time -> str(TimeCreated) ],
      items |-> items,
      parameters |-> parameters ]

\* the orders in which dict.items() may yield the five globals
DictOrders ==
    { o \in [1..Cardinality(GlobalNames) -> GlobalNames] :
        \A i, j \in DOMAIN o : i # j => o[i] # o[j] }

RECURSIVE replace_globals(_, _, _)
replace_globals(values, items, text) ==
    IF items = <<>> THEN text
    ELSE replace_globals(values, Tail(items),
            replace(text, parameter_format(Head(items)), values[Head(items)]))

_process_global_parameters(self, text) ==
    replace_globals(self.global_parameter_values, self.items, text)

RECURSIVE replace_parameters(_, _)
replace_parameters(params, text) ==
    IF params = <<>> THEN text
    ELSE replace_parameters(Tail(params),
            replace(text, parameter_format(Head(params).name), Head(params).value))

_process_parameters(self, text) == replace_parameters(self.parameters, text)

\* a parser that lets the user parameters go first
process_user_first(self, text) ==
    _process_global_parameters(self, _process_parameters(self, text))

process(self, text) ==
    _process_parameters(self, _process_global_parameters(self, text))

----------------------------------------------------------------------------
(* The models                                                               *)

\* Execution.STATUS_CHOICES; ExecutionCommandServer repeats the same values
PENDING == 3
RUNNING == 0
SUCCESS == 1
FAILED == 2

\* a null field, and a DateTimeField that has been set
None == <<>>
Stamped == <<"t">>

Roles == {"web", "db"}
Servers == {"s1", "s2"}
TaskCommandIds == {1, 2}
Orders == {1, 2}
CommandTexts == { <<"x">>, parameter_format(gun_task) }

\* a TaskCommand row
TaskCommand(command, roles, order) ==
    [command |-> command, roles |-> roles, order |-> order]

\* a new Execution, not saved yet
Execution == [id |-> 0, status |-> PENDING, time_start |-> None, time_end |-> None]

\* a new ExecutionCommand
ExecutionCommand(execution_id, command) ==
    [execution |-> execution_id, command |-> command, roles |-> {}]

\* a unit that is created RUNNING
ExecutionCommandServer_running(execution_command, server) ==
    [execution_command |-> execution_command, server |-> server, status |-> RUNNING,
     time_start |-> None, time_end |-> None, return_code |-> None, output |-> <<>>]

\* a new ExecutionCommandServer: the defaults of its fields
ExecutionCommandServer(execution_command, server) ==
    [execution_command |-> execution_command, server |-> server, status |-> PENDING,
     time_start |-> None, time_end |-> None, return_code |-> None, output |-> <<>>]

RECURSIVE SetToSeq(_)
SetToSeq(S) ==
    IF S = {} THEN <<>>
    ELSE LET x == CHOOSE y \in S : TRUE IN <<x>> \o SetToSeq(S \ {x})

RECURSIVE Concat(_)
Concat(seqs) == IF seqs = <<>> THEN <<>> ELSE Head(seqs) \o Concat(Tail(seqs))

Permutations_of(S) ==
    { o \in [1..Cardinality(S) -> S] : \A i, j \in DOMAIN o : i # j => o[i] # o[j] }

\* self.commands.all(): the ids in whatever order the table yields them
commands_all(commands) == Permutations_of(DOMAIN commands)

\* order_by('-order'): the highest rank first
commands_reversed(commands) ==
    { o \in Permutations_of(DOMAIN commands) :
        \A i, j \in DOMAIN o : i < j => commands[o[i]].order >= commands[o[j]].order }

\* Task.commands_ordered: order_by('order'); the order among equal ranks is
\* the database's
commands_ordered(commands) ==
    { o \in Permutations_of(DOMAIN commands) :
        \A i, j \in DOMAIN o : i < j => commands[o[i]].order <= commands[o[j]].order }

\* environment.servers.filter(roles__in=roles): the filter joins Server with
\* its roles, so it yields a server once per role of it that is in roles
servers_filter_roles_in(servers, roles) ==
    LET ids == SetToSeq(DOMAIN servers)
    IN  Concat([ i \in DOMAIN ids |->
                    [ k \in 1..Cardinality(servers[ids[i]] \cap roles) |-> ids[i] ] ])

\* Execution._create_execution_commands_servers
_create_execution_commands_servers(servers, command, execution_command, units) ==
    LET rows == servers_filter_roles_in(servers, command.roles)
    IN  units \o [ i \in DOMAIN rows |-> ExecutionCommandServer(execution_command, rows[i]) ]

\* Execution._create_execution_commands; plan holds the three tables it writes
_create_execution_commands(self, servers, command, plan) ==
    LET parsed_command == command.command
        execution_command ==
            [ ExecutionCommand(self.id, parsed_command) EXCEPT !.roles = command.roles ]
        id == Len(plan.commands) + 1
    IN  [ commands |-> Append(plan.commands, execution_command),
          source |-> Append(plan.source, command),
          units |-> _create_execution_commands_servers(servers, command, id, plan.units) ]

RECURSIVE create_each(_, _, _, _, _)
create_each(self, servers, commands, ordered, plan) ==
    IF ordered = <<>> THEN plan
    ELSE create_each(self, servers, commands, Tail(ordered),
            _create_execution_commands(self, servers, commands[Head(ordered)], plan))

\* a save that takes every Execution for a new one
is_new_always(self) == TRUE

\* is_new = not self.id
is_new(self) == self.id = 0

\* Execution.save
Save ==
    IF is_new(execution)
    THEN /\ execution' = [execution EXCEPT !.id = 1]
         /\ \E ordered \in commands_ordered(task_commands) :
               LET plan == create_each(execution', server_roles, task_commands, ordered,
                              [ commands |-> execution_commands,
                                source |-> materialized_from,
                                units |-> execution_command_servers ])
               IN  /\ execution_commands' = plan.commands
                   /\ materialized_from' = plan.source
                   /\ execution_command_servers' = plan.units
         /\ UNCHANGED <<definition_vars, log_vars, dispatch_vars, parser_vars>>
    ELSE UNCHANGED vars

\* Execution.start: ExecutionTask().delay(execution_id=self.id)
Start ==
    /\ starts < MaxStarts
    /\ starts' = starts + 1
    /\ worker_queue' = Append(worker_queue, execution.id)
    /\ UNCHANGED <<definition_vars, execution, plan_vars, log_vars, runs, parser_vars>>

\* the models a reverse accessor of the given name is defined on
related_name(name) ==
    CASE name = "tasks" -> {"Application"}
      [] name = "parameters" -> {"Task", "Execution"}
      [] name = "commands" -> {"Task", "ServerRole", "Execution"}
      [] name = "executions" -> {"Task", "Environment", "User"}
      [] name = "servers" -> {"ExecutionCommand"}
      [] name = "live_logs" -> {"Execution"}
      [] OTHER -> {}

\* the fields of ExecutionLiveLog
ExecutionLiveLog_fields == {"id", "execution", "event", "data"}

\* ExecutionCommandServer.get_live_log_output
get_live_log_output(self_id, logs) ==
    IF "ExecutionCommandServer" \notin related_name("live_logs")
    THEN [raised |-> "AttributeError", returned |-> <<>>]
    ELSE IF "output" \notin ExecutionLiveLog_fields
    THEN [raised |-> "FieldError", returned |-> <<>>]
    ELSE [raised |-> "",
          returned |-> Concat([ i \in DOMAIN logs |-> logs[i].data ])]

\* a caller reads the live output of unit u
ReadLiveLog(u) ==
    /\ u \in DOMAIN execution_command_servers
    /\ live_log_output' = [unit |-> u, outcome |-> get_live_log_output(u, execution_live_logs)]
    /\ UNCHANGED <<definition_vars, execution, plan_vars, execution_live_logs,
                   dispatch_vars, parser_vars>>

----------------------------------------------------------------------------
(* Edits of the Task and of the Environment                                 *)

\* a TaskCommand is added to the Task
AddTaskCommand(id, row) ==
    /\ edits < MaxEdits
    /\ id \notin DOMAIN task_commands
    /\ task_commands' = [ i \in DOMAIN task_commands \cup {id} |->
                            IF i = id THEN row ELSE task_commands[i] ]
    /\ edits' = edits + 1
    /\ UNCHANGED <<server_roles, execution, plan_vars, log_vars, dispatch_vars, parser_vars>>

\* the text, the rank or the roles of a TaskCommand are changed
EditTaskCommand(id, row) ==
    /\ edits < MaxEdits
    /\ id \in DOMAIN task_commands
    /\ row # task_commands[id]
    /\ \/ row = [task_commands[id] EXCEPT !.command = row.command]
       \/ row = [task_commands[id] EXCEPT !.order = row.order]
       \/ \E role \in Roles :
             row = [task_commands[id] EXCEPT !.roles = task_commands[id].roles \cup {role}]
    /\ task_commands' = [task_commands EXCEPT ![id] = row]
    /\ edits' = edits + 1
    /\ UNCHANGED <<server_roles, execution, plan_vars, log_vars, dispatch_vars, parser_vars>>

\* a Server is added to the Environment
AddServer(server, roles) ==
    /\ edits < MaxEdits
    /\ server \notin DOMAIN server_roles
    /\ server_roles' = [ s \in DOMAIN server_roles \cup {server} |->
                           IF s = server THEN roles ELSE server_roles[s] ]
    /\ edits' = edits + 1
    /\ UNCHANGED <<task_commands, execution, plan_vars, log_vars, dispatch_vars, parser_vars>>

\* a role is added to a Server of the Environment
AddServerRole(server, role) ==
    /\ edits < MaxEdits
    /\ server \in DOMAIN server_roles
    /\ role \notin server_roles[server]
    /\ server_roles' = [server_roles EXCEPT ![server] = @ \cup {role}]
    /\ edits' = edits + 1
    /\ UNCHANGED <<task_commands, execution, plan_vars, log_vars, dispatch_vars, parser_vars>>

----------------------------------------------------------------------------
(* The Live Log Sink and the Dispatcher: backend.tasks                      *)

\* append(executionId, eventKind, payload): one more ExecutionLiveLog row;
\* the event kind names the unit the payload comes from
AppendLiveLog(execution_id, event, data) ==
    /\ Len(execution_live_logs) < MaxLogs
    /\ execution_live_logs' = Append(execution_live_logs,
            [execution |-> execution_id, event |-> event, data |-> data])
    /\ UNCHANGED <<definition_vars, execution, plan_vars, live_log_output,
                   dispatch_vars, parser_vars>>

UnitsOf(c) ==
    { u \in DOMAIN execution_command_servers :
        execution_command_servers[u].execution_command = c }

Terminal(u) == execution_command_servers[u].status \in {SUCCESS, FAILED}

\* the Worker Queue begins the work enqueued first; an id that names no
\* Execution ends the work at once
WorkerTake ==
    /\ worker_queue # <<>>
    /\ worker_queue' = Tail(worker_queue)
    /\ IF Head(worker_queue) # 0 /\ Head(worker_queue) = execution.id
       THEN /\ runs' = Append(runs, [execution_id |-> Head(worker_queue),
                                     position |-> 1, finished |-> FALSE])
            /\ execution' = IF execution.status = PENDING
                            THEN [execution EXCEPT !.status = RUNNING,
                                                   !.time_start = Stamped]
                            ELSE execution
       ELSE UNCHANGED <<runs, execution>>
    /\ UNCHANGED <<definition_vars, plan_vars, log_vars, starts, parser_vars>>

\* run r hands unit u of its current command to the Runner
RunnerStart(r, u) ==
    /\ r \in DOMAIN runs
    /\ ~ runs[r].finished
    /\ u \in UnitsOf(runs[r].position)
    /\ execution_command_servers[u].status = PENDING
    /\ execution_command_servers' =
          [execution_command_servers EXCEPT ![u].status = RUNNING,
                                            ![u].time_start = Stamped]
    /\ UNCHANGED <<definition_vars, execution, execution_commands, materialized_from,
                   log_vars, dispatch_vars, parser_vars>>

\* the Runner returns for unit u: a return code, or a transport error
RunnerFinish(u, result) ==
    /\ u \in DOMAIN execution_command_servers
    /\ execution_command_servers[u].status = RUNNING
    /\ execution_command_servers' =
          [execution_command_servers EXCEPT
              ![u].status = IF result = <<0>> THEN SUCCESS ELSE FAILED,
              ![u].time_end = Stamped,
              ![u].return_code = result,
              ![u].output = IF result = None THEN <<"e">> ELSE <<"o">>]
    /\ UNCHANGED <<definition_vars, execution, execution_commands, materialized_from,
                   log_vars, dispatch_vars, parser_vars>>

\* the barrier between commands: every unit of the current command of run r
\* is terminal; a FAILED unit halts the run and fails the Execution
Advance(r) ==
    /\ r \in DOMAIN runs
    /\ ~ runs[r].finished
    /\ runs[r].position \in DOMAIN execution_commands
    /\ \A u \in UnitsOf(runs[r].position) : Terminal(u)
    /\ IF \E u \in UnitsOf(runs[r].position) : execution_command_servers[u].status = FAILED
       THEN /\ runs' = [runs EXCEPT ![r].finished = TRUE]
            /\ execution' = [execution EXCEPT !.status = FAILED, !.time_end = Stamped]
       ELSE /\ runs' = [runs EXCEPT ![r].position = @ + 1]
            /\ UNCHANGED execution
    /\ UNCHANGED <<definition_vars, plan_vars, log_vars, worker_queue, starts, parser_vars>>

\* run r is past the last command
Finish(r) ==
    /\ r \in DOMAIN runs
    /\ ~ runs[r].finished
    /\ runs[r].position = Len(execution_commands) + 1
    /\ runs' = [runs EXCEPT ![r].finished = TRUE]
    /\ execution' = [execution EXCEPT !.status = SUCCESS, !.time_end = Stamped]
    /\ UNCHANGED <<definition_vars, plan_vars, log_vars, worker_queue, starts, parser_vars>>

RunnerResults == { <<0>>, <<1>>, None }

Worker ==
    \/ WorkerTake
    \/ \E r \in 1..MaxStarts, u \in DOMAIN execution_command_servers : RunnerStart(r, u)
    \/ \E u \in DOMAIN execution_command_servers, result \in RunnerResults :
          RunnerFinish(u, result)
    \/ \E r \in 1..MaxStarts : Advance(r)
    \/ \E r \in 1..MaxStarts : Finish(r)

----------------------------------------------------------------------------
(* The life of one Execution: created, started, run by the Worker Queue     *)

\* the text of the two commands of the Task
TaskCommandText(id) == IF id = 1 THEN parameter_format(gun_task) ELSE <<"x">>

NoPlan ==
    /\ execution = Execution
    /\ execution_commands = <<>>
    /\ materialized_from = <<>>
    /\ execution_command_servers = <<>>
    /\ execution_live_logs = <<>>
    /\ live_log_output = [unit |-> 0, outcome |-> [raised |-> "", returned |-> <<>>]]
    /\ worker_queue = <<>>
    /\ starts = 0
    /\ edits = 0
    /\ runs = <<>>

NoParser ==
    /\ execution_parameters = <<>>
    /\ cmd = <<>>
    /\ parsed = <<>>
    /\ pc = "idle"

\* two commands of any roles, ranked either way or equally; server s1 of any
\* roles, and server s2 a web server or a server of no role
Init ==
    /\ \E roles \in [TaskCommandIds -> SUBSET Roles], order \in [TaskCommandIds -> Orders] :
          /\ \E id \in TaskCommandIds : order[id] = 1
          /\ task_commands = [ id \in TaskCommandIds |->
                                 TaskCommand(TaskCommandText(id), roles[id], order[id]) ]
    /\ server_roles \in [Servers -> SUBSET Roles]
    /\ server_roles["s2"] \subseteq {"web"}
    /\ NoPlan
    /\ NoParser

Next ==
    \/ Save
    \/ Start
    \/ Worker

Spec == Init /\ [][Next]_vars

\* the Worker Queue runs what is enqueued, and the Runner returns
FairSpec == Spec /\ WF_vars(Worker)

----------------------------------------------------------------------------
(* The Task and the Environment edited around the creation of an Execution  *)

EditInit ==
    /\ task_commands = [ id \in {1} |-> TaskCommand(TaskCommandText(id), {"web"}, 1) ]
    /\ server_roles = [ s \in {"s1"} |-> {"web"} ]
    /\ NoPlan
    /\ NoParser

EditNext ==
    \/ Save
    \/ \E id \in TaskCommandIds, role \in Roles :
          AddTaskCommand(id, TaskCommand(<<"x">>, {role}, id))
    \/ \E id \in TaskCommandIds,
          row \in [command : CommandTexts, roles : SUBSET Roles, order : Orders] :
          EditTaskCommand(id, row)
    \/ \E server \in Servers, roles \in SUBSET Roles : AddServer(server, roles)
    \/ \E server \in Servers, role \in Roles : AddServerRole(server, role)
    \/ \E execution_id \in {1, 2}, u \in {1, 2} : AppendLiveLog(execution_id, u, <<"o">>)
    \/ \E u \in DOMAIN execution_command_servers : ReadLiveLog(u)

EditSpec == EditInit /\ [][EditNext]_vars

----------------------------------------------------------------------------
(* Inputs of the parser                                                     *)

a == <<"a">>
b == <<"b">>

Pieces ==
    { <<"x">>, <<"$">>, parameter_format(gun_task),
      parameter_format(a), parameter_format(b) }

RECURSIVE TextsOf(_)
TextsOf(n) ==
    IF n = 0 THEN { <<>> }
    ELSE LET shorter == TextsOf(n - 1)
         IN  shorter \cup { t \o p : t \in shorter, p \in Pieces }

Texts == TextsOf(MaxPieces)

ParameterRows ==
    { [name |-> a, value |-> <<"v">>],
      [name |-> a, value |-> parameter_format(b)],
      [name |-> b, value |-> <<"w">>],
      [name |-> b, value |-> parameter_format(gun_task)],
      [name |-> gun_task, value |-> <<"v">>] }

RECURSIVE RowSeqs(_)
RowSeqs(n) ==
    IF n = 0 THEN { <<>> }
    ELSE LET shorter == RowSeqs(n - 1)
         IN  shorter \cup { Append(s, r) : s \in shorter, r \in ParameterRows }

ParameterLists ==
    { s \in RowSeqs(MaxParams) : \A i, j \in DOMAIN s : i # j => s[i] # s[j] }

----------------------------------------------------------------------------
(* The parser run on its own                                                *)

ParserInit ==
    /\ cmd \in Texts
    /\ execution_parameters \in ParameterLists
    /\ parsed = <<>>
    /\ pc = "ready"
    /\ task_commands = <<>>
    /\ server_roles = <<>>
    /\ NoPlan

Process ==
    /\ pc = "ready"
    /\ \E items \in DictOrders :
          parsed' = process(ParameterParser(execution_parameters, items), cmd)
    /\ pc' = "done"
    /\ UNCHANGED <<cmd, execution_parameters>>
    /\ UNCHANGED <<definition_vars, execution, plan_vars, log_vars, dispatch_vars>>

ParserNext == Process

ParserSpec == ParserInit /\ [][ParserNext]_vars

----------------------------------------------------------------------------
(* Claims about the parser                                                  *)

\* the values of the globals of the execution
GlobalValues == ParameterParser(<<>>, <<>>).global_parameter_values

\* one pass over text: every placeholder of a name in names that text holds
\* is replaced by value[name], and nothing that a value brings in is looked at
RECURSIVE SubstituteOnce(_, _, _)
SubstituteOnce(names, value, text) ==
    IF text = <<>> THEN <<>>
    ELSE LET hit == { n \in names :
                        /\ Len(parameter_format(n)) <= Len(text)
                        /\ SubSeq(text, 1, Len(parameter_format(n))) = parameter_format(n) }
         IN  IF hit # {}
             THEN LET n == CHOOSE n \in hit : TRUE
                  IN  value[n] \o SubstituteOnce(names, value,
                          SubSeq(text, Len(parameter_format(n)) + 1, Len(text)))
             ELSE <<Head(text)>> \o SubstituteOnce(names, value, Tail(text))

\* C4: the globals are substituted before the user parameters: the text
\* process returns is the user parameters applied to the input in which every
\* placeholder of a global name has been replaced by the global's value, so a
\* user parameter named like a global never overrides it.
C4_GlobalsBeforeParameters ==
    pc = "done" =>
        parsed = replace_parameters(execution_parameters,
                    SubstituteOnce(GlobalNames, GlobalValues, cmd))

\* a user parameter named gun_task with another value, a command text that
\* holds ${gun_task}, and the task's name in the result
C4_Witness ==
    /\ pc = "done"
    /\ \E i \in DOMAIN execution_parameters :
          /\ execution_parameters[i].name = gun_task
          /\ execution_parameters[i].value # TaskName
          /\ ~ Contains(parsed, execution_parameters[i].value)
    /\ Contains(cmd, parameter_format(gun_task))
    /\ Contains(parsed, TaskName)
    /\ ~ Contains(parsed, parameter_format(gun_task))

\* C5: substitution is a single pass: when the value of user parameter p holds
\* the placeholder of another user parameter q, and the command text holds the
\* placeholder of p but not that of q, the result holds q's placeholder
\* verbatim, whatever the order of the parameters.
C5_SinglePass ==
    pc = "done" =>
        \A i, j \in DOMAIN execution_parameters :
            LET p == execution_parameters[i]
                q == execution_parameters[j]
            IN  ( /\ p.name # q.name
                  /\ p.name \notin GlobalNames
                  /\ q.name \notin GlobalNames
                  /\ \A k \in DOMAIN execution_parameters :
                        execution_parameters[k].name = p.name => k = i
                  /\ Contains(p.value, parameter_format(q.name))
                  /\ Contains(cmd, parameter_format(p.name))
                  /\ ~ Contains(cmd, parameter_format(q.name)) )
                => Contains(parsed, parameter_format(q.name))

----------------------------------------------------------------------------
(* Claims about the plan, the dispatch and the live log                     *)

Created == execution.id # 0

UnitsOn(c, server) ==
    { u \in UnitsOf(c) : execution_command_servers[u].server = server }

Rank(c) == materialized_from[c].order

\* C1: after the Execution is created, every ExecutionCommand has exactly one
\* unit on each server of the Environment whose roles intersect the command's
\* roles, and none on any other server.
C1_OneUnitPerMatchingServer ==
    Created =>
        \A c \in DOMAIN execution_commands, server \in DOMAIN server_roles :
            Cardinality(UnitsOn(c, server)) =
                IF server_roles[server] \cap execution_commands[c].roles # {} THEN 1 ELSE 0

\* C2: the text stored in an ExecutionCommand is the text of its TaskCommand
\* after the substitution of the parameters by ParameterParser.process.
C2_StoredTextIsSubstituted ==
    \A c \in DOMAIN execution_commands :
        \E items \in DictOrders :
            execution_commands[c].command =
                process(ParameterParser(execution_parameters, items),
                        materialized_from[c].command)

\* the work enqueued or begun for the Execution
Dispatched ==
    Cardinality({ i \in DOMAIN worker_queue : Created /\ worker_queue[i] = execution.id })
        + Len(runs)

\* C3: over any sequence of start calls at most one unit of work is enqueued
\* on the Worker Queue for the Execution.
C3_AtMostOneDispatch == Dispatched <= 1

\* C6: once the Execution is created, no step (a further save, an edit of the
\* Task, a server or a role added to the Environment) changes its
\* ExecutionCommands or its units.
C6_PlanMaterializedOnce ==
    [][Created => UNCHANGED <<execution_commands, execution_command_servers>>]_vars

\* a created Execution with a unit, whose TaskCommand has been edited since
\* and whose Environment has a matching server the plan has no unit on
C6_Witness ==
    /\ Created
    /\ execution_command_servers # <<>>
    /\ \E c \in DOMAIN execution_commands :
          /\ \A id \in DOMAIN task_commands : task_commands[id] # materialized_from[c]
          /\ \E server \in DOMAIN server_roles :
                /\ server_roles[server] \cap execution_commands[c].roles # {}
                /\ UnitsOn(c, server) = {}

\* C7: no command of a higher rank has a unit that left PENDING unless every
\* unit of each command of a lower rank is SUCCESS or FAILED.
C7_RankOrder ==
    \A i, j \in DOMAIN execution_commands :
        ( /\ Rank(i) < Rank(j)
          /\ \E u \in UnitsOf(j) : execution_command_servers[u].status # PENDING )
        => \A u \in UnitsOf(i) : Terminal(u)

\* the command of the higher rank runs, the one of the lower rank having units
C7_Witness ==
    \E i, j \in DOMAIN execution_commands :
        /\ Rank(i) < Rank(j)
        /\ UnitsOf(i) # {}
        /\ \E u \in UnitsOf(j) : execution_command_servers[u].status = RUNNING

FailedCommands ==
    { c \in DOMAIN execution_commands :
        \E u \in UnitsOf(c) : execution_command_servers[u].status = FAILED }

LaterUnitsPending ==
    \A i \in FailedCommands, j \in DOMAIN execution_commands :
        Rank(i) < Rank(j) =>
            \A u \in UnitsOf(j) : execution_command_servers[u].status = PENDING

\* C8: fail-fast: while a unit of a command is FAILED, every unit of every
\* command of a higher rank is PENDING (a FAILED unit stays FAILED, so this is
\* forever), and once a unit is FAILED the Execution becomes FAILED and stays
\* FAILED.
C8_FailFast ==
    /\ [] LaterUnitsPending
    /\ (FailedCommands # {}) ~> [] (execution.status = FAILED)

\* a FAILED unit before a command of a higher rank that has units, and the
\* Execution FAILED
C8_Witness ==
    /\ execution.status = FAILED
    /\ \E i \in FailedCommands, j \in DOMAIN execution_commands :
          Rank(i) < Rank(j) /\ UnitsOf(j) # {}

IsPrefix(s, t) == Len(s) <= Len(t) /\ SubSeq(t, 1, Len(s)) = s

\* the payloads recorded for unit u, in arrival order
PayloadsOf(u) ==
    LET mine == SelectSeq(execution_live_logs,
                    LAMBDA row : row.execution = execution.id /\ row.event = u)
    IN  Concat([ i \in DOMAIN mine |-> mine[i].data ])

\* C9: a read of the live output of a unit returns the payloads recorded for
\* that unit, in arrival order: a prefix of what is recorded for it later on.
C9_LiveOutputOfUnit ==
    live_log_output.unit # 0 =>
        /\ live_log_output.outcome.raised = ""
        /\ IsPrefix(live_log_output.outcome.returned, PayloadsOf(live_log_output.unit))

\* C10: from the creation of the Execution until start is called, the
\* Execution and every unit are PENDING with time_start, time_end and
\* return_code unset, and every TaskCommand has its ExecutionCommand, also the
\* one whose roles match no server.
C10_PendingUntilStarted ==
    (Created /\ starts = 0) =>
        /\ execution.status = PENDING
        /\ execution.time_start = None
        /\ execution.time_end = None
        /\ Len(execution_commands) = Cardinality(DOMAIN task_commands)
        /\ \A u \in DOMAIN execution_command_servers :
              /\ execution_command_servers[u].status = PENDING
              /\ execution_command_servers[u].time_start = None
              /\ execution_command_servers[u].time_end = None
              /\ execution_command_servers[u].return_code = None

\* created and not started: one command with units, one with none
C10_Witness ==
    /\ Created
    /\ starts = 0
    /\ \E c \in DOMAIN execution_commands : UnitsOf(c) = {}
    /\ \E c \in DOMAIN execution_commands : UnitsOf(c) # {}

====
